---- MODULE Spec2Model ----
(***************************************************************************)
(* A model of CVideoGUIInfo (xbmc/guilib/guiinfo/VideoGUIInfo.cpp): the    *)
(* video info provider queried by the GUI info manager.  The provider is a *)
(* set of call-and-return operations on a file item:                       *)
(*   InitCurrentItem(item)            -> bool (may load a thumb)           *)
(*   GetLabel(value, item, info, ...) -> bool (string out-parameter)       *)
(*   GetInt(value, item, info)        -> bool (int out-parameter)          *)
(*   GetBool(value, item, info)       -> bool (bool out-parameter)         *)
(* The state is the item under query, the provider's cached playback info, *)
(* the global collaborators the code reads (player, settings, playlist     *)
(* file), the thumb loader's call log, and the result of the last call.    *)
(* Strings are TLA+ strings; info codes are named by their enumerator.     *)
(***************************************************************************)
EXTENDS Integers, Sequences, FiniteSets, TLC

(***************************************************************************)
(* Bounds of the model.                                                    *)
(***************************************************************************)
MaxTime == 9          \* resume points: seconds in -1..MaxTime
MaxEpisode == 3       \* episode and season numbers in -1..MaxEpisode
MaxBitrateStep == 5   \* cached bitrates around k*500, k in 0..MaxBitrateStep
MaxRating == 2        \* ratings, votes and user ratings in -1..MaxRating
MaxNow == 1           \* wall clock values read by the end-time labels

(***************************************************************************)
(* Strings.                                                                *)
(***************************************************************************)
Max(S) == CHOOSE x \in S : \A y \in S : y <= x

Digit(d) ==
  CASE d = 0 -> "0" [] d = 1 -> "1" [] d = 2 -> "2" [] d = 3 -> "3"
    [] d = 4 -> "4" [] d = 5 -> "5" [] d = 6 -> "6" [] d = 7 -> "7"
    [] d = 8 -> "8" [] d = 9 -> "9"

RECURSIVE DecNat(_)
DecNat(n) == IF n < 10 THEN Digit(n) ELSE DecNat(n \div 10) \o Digit(n % 10)

\* StringUtils::Format("%d" / "%i" / "%li", n)
FormatInt(n) == IF n < 0 THEN "-" \o DecNat(0 - n) ELSE DecNat(n)

ToLowerChar(c) ==
  CASE c = "A" -> "a" [] c = "B" -> "b" [] c = "C" -> "c" [] c = "D" -> "d"
    [] c = "E" -> "e" [] c = "F" -> "f" [] c = "G" -> "g" [] c = "H" -> "h"
    [] c = "I" -> "i" [] c = "J" -> "j" [] c = "K" -> "k" [] c = "L" -> "l"
    [] c = "M" -> "m" [] c = "N" -> "n" [] c = "O" -> "o" [] c = "P" -> "p"
    [] c = "Q" -> "q" [] c = "R" -> "r" [] c = "S" -> "s" [] c = "T" -> "t"
    [] c = "U" -> "u" [] c = "V" -> "v" [] c = "W" -> "w" [] c = "X" -> "x"
    [] c = "Y" -> "y" [] c = "Z" -> "z" [] OTHER -> c

\* StringUtils::EqualsNoCase: equal length and equal characters after tolower
RECURSIVE EqualsNoCase(_, _)
EqualsNoCase(a, b) ==
  IF Len(a) = 0 \/ Len(b) = 0 THEN Len(a) = Len(b)
  ELSE /\ ToLowerChar(Head(a)) = ToLowerChar(Head(b))
       /\ EqualsNoCase(Tail(a), Tail(b))

\* g_advancedSettings.m_videoItemSeparator
VideoItemSeparator == " / "

\* StringUtils::Join(list, separator)
RECURSIVE Join(_, _)
Join(list, sep) ==
  IF Len(list) = 0 THEN ""
  ELSE IF Len(list) = 1 THEN list[1]
  ELSE list[1] \o sep \o Join(Tail(list), sep)

\* position of the last occurrence of character c in s, 0 when there is none
LastIndexOf(s, c) ==
  LET I == {i \in 1..Len(s) : SubSeq(s, i, i) = c}
  IN IF I = {} THEN 0 ELSE Max(I)

\* URIUtils::GetFileName, for a plain path: the part after the last slash
GetFileName(path) == SubSeq(path, LastIndexOf(path, "/") + 1, Len(path))

\* URIUtils::RemoveSlashAtEnd
RemoveSlashAtEnd(path) ==
  IF Len(path) > 0 /\ SubSeq(path, Len(path), Len(path)) = "/"
  THEN SubSeq(path, 1, Len(path) - 1) ELSE path

\* URIUtils::GetParentPath, for a plain path: up to and including the slash
\* that precedes the last path component; empty when there is no parent
GetParentPath(path) ==
  LET p == RemoveSlashAtEnd(path)
  IN SubSeq(p, 1, LastIndexOf(p, "/"))

\* URIUtils::GetExtension: from the last dot of the file name, "" if none
GetExtension(path) ==
  LET f == GetFileName(path)
      d == LastIndexOf(f, ".")
  IN IF d = 0 THEN "" ELSE SubSeq(f, d, Len(f))

\* StringUtils::TrimLeft(str, "."): drop the leading dots
RECURSIVE TrimLeftDots(_)
TrimLeftDots(s) ==
  IF Len(s) > 0 /\ Head(s) = "." THEN TrimLeftDots(Tail(s)) ELSE s

\* CUtil::GetTitleFromPath, for a plain file path
GetTitleFromPath(path) == GetFileName(RemoveSlashAtEnd(path))

\* GUIINFO::GetFileInfoLabelValueFromPath, for a plain path (not in an archive)
GetFileInfoLabelValueFromPath(info, path) ==
  IF info = "PLAYER_PATH" THEN GetParentPath(path)
  ELSE IF info = "PLAYER_FILENAME" THEN GetFileName(path)
  ELSE path

\* CURL(path).GetWithoutUserDetails(), for a plain path: nothing to strip
GetWithoutUserDetails(path) == path

(***************************************************************************)
(* Formatting done by collaborators of the provider.                       *)
(***************************************************************************)
\* StringUtils::FormatNumber(float), one decimal; the rating is kept in tenths
FormatNumberFloat(tenths) ==
  IF tenths < 0 THEN "-" \o DecNat((0 - tenths) \div 10) \o "." \o Digit((0 - tenths) % 10)
  ELSE DecNat(tenths \div 10) \o "." \o Digit(tenths % 10)

\* StringUtils::FormatNumber(int), for counts below the first thousands group
FormatNumberInt(n) == FormatInt(n)

\* StringUtils::Format(g_localizeStrings.Get(20350), rating, votes)
FormatRatingAndVotes(rating, votes) == rating \o " (" \o votes \o " votes)"

\* g_localizeStrings.Get(20370): the spoiler guard shown for an unwatched plot
HiddenPlotText == "* Hidden to prevent spoilers *"

\* CDateTime: a day number, 0 for an invalid date
IsValidDate(d) == d > 0

\* CDateTime::GetYear, of a day number counted from 1970
GetYearOfDate(d) == 1970 + d \div 365

\* CDateTime::GetAsLocalizedDate
GetAsLocalizedDate(d) == "day " \o FormatInt(d)

\* (CDateTime::GetCurrentDateTime() + CDateTimeSpan(0,0,0,secs)).GetAsLocalizedTime
GetAsLocalizedTime(now, secs) == "time " \o FormatInt(now + secs)

\* CStreamDetails::VideoDimsToResolutionDescription
VideoDimsToResolutionDescription(w, h) ==
  IF w = 0 \/ h = 0 THEN ""
  ELSE IF w <= 720 /\ h <= 480 THEN "480"
  ELSE IF w <= 768 /\ h <= 576 THEN "576"
  ELSE IF w <= 960 /\ h <= 544 THEN "540"
  ELSE IF w <= 1280 /\ h <= 720 THEN "720"
  ELSE IF w <= 1920 /\ h <= 1080 THEN "1080"
  ELSE IF w * h >= 6000000 THEN "4K"
  ELSE ""

\* CStreamDetails::VideoAspectToAspectDescription; the aspect is kept in 1/10000
VideoAspectToAspectDescription(a) ==
  IF a = 0 THEN ""
  ELSE IF a < 13499 THEN "1.33"
  ELSE IF a < 15080 THEN "1.37"
  ELSE IF a < 17190 THEN "1.66"
  ELSE IF a < 18147 THEN "1.78"
  ELSE IF a < 20174 THEN "1.85"
  ELSE IF a < 22738 THEN "2.20"
  ELSE IF a < 23749 THEN "2.35"
  ELSE IF a < 24739 THEN "2.40"
  ELSE IF a < 26529 THEN "2.55"
  ELSE "2.76"

\* CStereoscopicsManager::NormalizeStereoMode: the GUI name of a known video
\* stereo mode, the mode itself when it is empty, "mono" or unknown
NormalizeStereoMode(mode) ==
  IF mode = "" \/ mode = "mono" THEN mode
  ELSE IF mode = "left_right" THEN "split_vertical"
  ELSE IF mode = "top_bottom" THEN "split_horizontal"
  ELSE mode

\* CBookmark::IsPartWay
IsPartWay(bookmark) ==
  bookmark.totalTimeInSeconds > 0 /\ bookmark.timeInSeconds > 0

(***************************************************************************)
(* Rounding of the C library under the default rounding mode (to nearest,  *)
(* ties to even), on the exact quotient num/den with den > 0, num >= 0.    *)
(***************************************************************************)
RoundHalfEven(num, den) ==
  LET f == num \div den
      r == num % den
  IN IF 2 * r < den THEN f
     ELSE IF 2 * r > den THEN f + 1
     ELSE IF f % 2 = 0 THEN f ELSE f + 1

\* truncation toward zero, the result of an integer cast
RoundTruncate(num, den) == num \div den

\* std::lrint(double) of the quotient of two integers, num / den computed as
\* a double: for the integers of a bitrate (num < 2^31, den = 1000) a quotient
\* that is not a tie lies at least 1/(2*den) from the nearest tie, far more
\* than the error of one double division, so that the rounded double and the
\* rounded exact quotient are the same integer
lrint(num, den) == RoundHalfEven(num, den)

(***************************************************************************)
(* Binary floating point.  A positive value is [bits, exp]: the binary     *)
(* digits of its significand, most significant first and starting with 1,  *)
(* and the exponent of the last digit, so that the value is                *)
(* NatOfBits(bits) * 2^exp.  A float keeps 24 digits, a double 53.         *)
(* Exponent range (overflow, subnormals) is not modelled: the values here  *)
(* are quotients of two positive integers below 2^30.                      *)
(***************************************************************************)
FloatDigits == 24

DoubleDigits == 53

RECURSIVE Pow2(_)
Pow2(k) == IF k = 0 THEN 1 ELSE 2 * Pow2(k - 1)

RECURSIVE BitsOfNat(_)
BitsOfNat(n) == IF n = 0 THEN <<>> ELSE Append(BitsOfNat(n \div 2), n % 2)

RECURSIVE NatOfBits(_)
NatOfBits(b) ==
  IF b = <<>> THEN 0 ELSE 2 * NatOfBits(SubSeq(b, 1, Len(b) - 1)) + b[Len(b)]

Zeros(k) == [i \in 1..k |-> 0]

HasOne(b) == \E i \in 1..Len(b) : b[i] = 1

\* b + 1
IncBits(b) ==
  IF \A i \in 1..Len(b) : b[i] = 1 THEN <<1>> \o Zeros(Len(b))
  ELSE LET z == Max({i \in 1..Len(b) : b[i] = 0})
       IN [i \in 1..Len(b) |-> IF i < z THEN b[i] ELSE IF i = z THEN 1 ELSE 0]

\* b * c for a small whole number c, by the school method: the digits of b
\* from the i-th down are still to be multiplied, carry is carried over and
\* acc holds the digits of the product found so far
RECURSIVE TimesBitsFrom(_, _, _, _, _)
TimesBitsFrom(b, c, i, carry, acc) ==
  IF i = 0 THEN BitsOfNat(carry) \o acc
  ELSE IF (c * b[i] + carry) % 2 = 1
  THEN TimesBitsFrom(b, c, i - 1, (c * b[i] + carry) \div 2, <<1>> \o acc)
  ELSE TimesBitsFrom(b, c, i - 1, (c * b[i] + carry) \div 2, <<0>> \o acc)

TimesBits(b, c) == TimesBitsFrom(b, c, Len(b), 0, <<>>)

\* the value x rounded to p significant digits, to nearest and ties to even
\* (the default rounding mode); sticky tells that the exact value has further
\* nonzero digits below those of x
RoundToPrecision(x, p, sticky) ==
  IF Len(x.bits) <= p THEN x
  ELSE LET keep == SubSeq(x.bits, 1, p)
           rest == SubSeq(x.bits, p + 1, Len(x.bits))
           more == sticky \/ HasOne(Tail(rest))
           up == rest[1] = 1 /\ (more \/ keep[p] = 1)
           e == x.exp + Len(rest)
           k == IncBits(keep)
       IN IF ~up THEN [bits |-> keep, exp |-> e]
          ELSE IF Len(k) > p THEN [bits |-> SubSeq(k, 1, p), exp |-> e + 1]
          ELSE [bits |-> k, exp |-> e]

\* static_cast<float> of a positive whole number
FloatOfInt(n) ==
  RoundToPrecision([bits |-> BitsOfNat(n), exp |-> 0], FloatDigits, FALSE)

\* the whole number a float or double with exp >= 0 stands for
IntOfFloat(x) == NatOfBits(x.bits) * Pow2(x.exp)

\* the digits of the quotient of a long division by b, continued from the
\* digits acc and the remainder r until n significant digits are known
RECURSIVE DivideBits(_, _, _, _)
DivideBits(r, b, acc, n) ==
  IF Len(acc) >= n \/ r = 0 THEN [bits |-> acc, sticky |-> r # 0]
  ELSE IF 2 * r >= b THEN DivideBits(2 * r - b, b, Append(acc, 1), n)
  ELSE DivideBits(2 * r, b, Append(acc, 0), n)

\* the number of zeros between the binary point and the first digit 1 of a / b
\* for 0 < a < b < 2^30
LeadingZeros(a, b) ==
  CHOOSE z \in 0..29 :
    /\ Pow2(z + 1) >= (b + a - 1) \div a
    /\ \A y \in 0..(z - 1) : Pow2(y + 1) < (b + a - 1) \div a

\* a / b of the positive whole numbers a and b, rounded to p digits
Divide(a, b, p) ==
  LET z == IF a < b THEN LeadingZeros(a, b) ELSE 0
      whole == BitsOfNat(a \div b)
      d == DivideBits((a % b) * Pow2(z), b, whole, p + 1)
  IN RoundToPrecision([bits |-> d.bits,
                       exp |-> 0 - z - (Len(d.bits) - Len(whole))],
                      p, d.sticky)

\* a / b of two doubles holding the positive whole numbers a and b
DoubleDivide(a, b) == Divide(a, b, DoubleDigits)

\* a / b of two floats holding the positive whole numbers a and b
FloatDivide(a, b) == Divide(a, b, FloatDigits)

\* x * 100.0f of a double x
DoubleTimes100(x) ==
  RoundToPrecision([bits |-> TimesBits(x.bits, 100), exp |-> x.exp],
                   DoubleDigits, FALSE)

\* the conversion of a double to the float parameter of std::lrintf
FloatOfDouble(x) == RoundToPrecision(x, FloatDigits, FALSE)

\* std::lrintf(float): the digits of the long nearest to x, ties to even
lrintf(x) ==
  IF x.exp >= 0 THEN x.bits \o Zeros(x.exp)
  ELSE LET n == Len(x.bits) + x.exp
       IN IF n < 0 THEN <<>>
          ELSE LET keep == SubSeq(x.bits, 1, n)
                   rest == SubSeq(x.bits, n + 1, Len(x.bits))
                   up == /\ rest[1] = 1
                         /\ HasOne(Tail(rest)) \/ (n > 0 /\ keep[n] = 1)
               IN IF up THEN IncBits(keep) ELSE keep

\* the conversion of a long to the int the function returns: the low 32
\* digits, in two's complement
IntOfLong(b) ==
  LET padded == Zeros(32) \o b
      low == SubSeq(padded, Len(padded) - 31, Len(padded))
  IN IF low[1] = 1 THEN (NatOfBits(Tail(low)) - 2147483647) - 1
     ELSE NatOfBits(Tail(low))

\* the expression of line 44 for a part-way bookmark whose times are whole
\* numbers: the float of the time is divided and multiplied as a double
\* (totalTimeInSeconds is a double), the product is converted to the float
\* std::lrintf takes, and the long it returns is narrowed to int.  Times
\* that are a whole number of 2^-k seconds give the same quotient.
PercentOfBookmark(timeInSeconds, totalTimeInSeconds) ==
  LET time == IntOfFloat(FloatOfInt(timeInSeconds))
      product == DoubleTimes100(DoubleDivide(time, totalTimeInSeconds))
  IN IntOfLong(lrintf(FloatOfDouble(product)))

(***************************************************************************)
(* StringUtils::SecondsToTimeString(seconds, format) for seconds > 0.      *)
(***************************************************************************)
TIME_FORMAT_GUESS == 0
TIME_FORMAT_SS == 1
TIME_FORMAT_MM == 2
TIME_FORMAT_MM_SS == 3
TIME_FORMAT_HH == 4
TIME_FORMAT_HH_MM_SS == 7
TIME_FORMAT_H == 16
TIME_FORMAT_H_MM_SS == 19
TIME_FORMAT_SECS == 32
TIME_FORMAT_MINS == 64
TIME_FORMAT_HOURS == 128
TIME_FORMAT_M == 256

\* format & flag, for a flag that is one bit
HasFlag(format, flag) == (format \div flag) % 2 = 1

TwoDigits(n) == IF n < 10 THEN "0" \o Digit(n) ELSE DecNat(n)

\* lrintf(static_cast<float>(seconds) / unit) of SecondsToTimeString
SecondsInUnits(secs, unit) ==
  IntOfLong(lrintf(FloatDivide(IntOfFloat(FloatOfInt(secs)), unit)))

SecondsToTimeString(secs, format) ==
  IF format = TIME_FORMAT_SECS THEN FormatInt(secs)
  ELSE IF format = TIME_FORMAT_MINS THEN FormatInt(SecondsInUnits(secs, 60))
  ELSE IF format = TIME_FORMAT_HOURS THEN FormatInt(SecondsInUnits(secs, 3600))
  ELSE IF HasFlag(format, TIME_FORMAT_M) THEN FormatInt((secs % 3600) \div 60)
  ELSE LET hh == secs \div 3600
           mm == (secs % 3600) \div 60
           ss == secs % 60
           fmt == IF format # TIME_FORMAT_GUESS THEN format
                  ELSE IF hh >= 1 THEN TIME_FORMAT_HH_MM_SS
                  ELSE TIME_FORMAT_MM_SS
           hours == IF HasFlag(fmt, TIME_FORMAT_HH) THEN TwoDigits(hh)
                    ELSE IF HasFlag(fmt, TIME_FORMAT_H) THEN FormatInt(hh)
                    ELSE ""
           minutes == IF ~HasFlag(fmt, TIME_FORMAT_MM) THEN hours
                      ELSE IF hours = "" THEN TwoDigits(mm)
                      ELSE hours \o ":" \o TwoDigits(mm)
       IN IF ~HasFlag(fmt, TIME_FORMAT_SS) THEN minutes
          ELSE IF minutes = "" THEN TwoDigits(ss)
          ELSE minutes \o ":" \o TwoDigits(ss)

\* a percentage obtained by an integer cast of the quotient instead of lrintf
GetPercentPlayedTruncated(tag) ==
  LET bookmark == tag.resumePoint
  IN IF IsPartWay(bookmark)
     THEN RoundTruncate(bookmark.timeInSeconds * 100, bookmark.totalTimeInSeconds)
     ELSE 0

\* rounding to nearest with ties away from zero, the result of std::lroundf
RoundHalfAway(num, den) == (2 * num + den) \div (2 * den)

\* a percentage rounded with std::lroundf instead of std::lrintf
GetPercentPlayedHalfAway(tag) ==
  LET bookmark == tag.resumePoint
  IN IF IsPartWay(bookmark)
     THEN RoundHalfAway(bookmark.timeInSeconds * 100, bookmark.totalTimeInSeconds)
     ELSE 0

\* CVideoGUIInfo::GetPercentPlayed
GetPercentPlayed(tag) ==
  LET bookmark == tag.resumePoint
  IN IF IsPartWay(bookmark)
     THEN PercentOfBookmark(bookmark.timeInSeconds, bookmark.totalTimeInSeconds)
     ELSE 0

(***************************************************************************)
(* The data the provider reads.  A CVideoInfoTag is a record of what its   *)
(* accessors return; a rating is kept in tenths, an aspect in 1/10000, a   *)
(* date as a day number (0: invalid).                                      *)
(***************************************************************************)
RatingTypes == {"", "imdb", "other"}   \* info.GetData3() of a rating query

NoRating == [rating |-> 0, votes |-> 0]   \* CRating()

\* a tag whose every field is unknown: empty strings and lists, the
\* sentinels of the numbers, invalid dates
EmptyTag ==
  [ m_strFileNameAndPath |-> "", m_strPath |-> "", m_strTitle |-> "",
    m_strOriginalTitle |-> "", m_genre |-> << >>, m_director |-> << >>,
    uniqueID |-> "", m_iDbId |-> -1,
    ratings |-> [t \in RatingTypes |-> NoRating],
    m_iUserRating |-> 0, m_year |-> 0, m_firstAired |-> 0, m_premiered |-> 0,
    m_strPlot |-> "", m_strTrailer |-> "", m_strPlotOutline |-> "",
    m_iEpisode |-> -1, m_iSeason |-> -1, m_strShowTitle |-> "",
    m_studio |-> << >>, m_country |-> << >>, m_strMPAARating |-> "",
    m_iTop250 |-> 0, cast |-> "", castAndRole |-> "", m_artist |-> << >>,
    m_strAlbum |-> "", m_writingCredits |-> << >>, m_strTagLine |-> "",
    m_lastPlayed |-> 0, playCount |-> 0, duration |-> 0, m_iTrack |-> -1,
    m_type |-> "", m_strStatus |-> "", m_tags |-> << >>,
    setTitle |-> "", setId |-> -1, m_dateAdded |-> 0, m_relevance |-> -1,
    resumePoint |-> [timeInSeconds |-> 0, totalTimeInSeconds |-> 0],
    videoCodec |-> "", videoWidth |-> 0, videoHeight |-> 0, videoAspect |-> 0,
    audioCodec |-> "", audioChannels |-> 0, audioLanguage |-> "",
    subtitleLanguage |-> "", stereoMode |-> "", m_strFile |-> "" ]

\* a tag whose every field is known
KnownTag ==
  [ m_strFileNameAndPath |-> "/tv/show/s01e02.mkv", m_strPath |-> "/tv/show/",
    m_strTitle |-> "Pilot", m_strOriginalTitle |-> "Piloto",
    m_genre |-> <<"Drama", "Crime">>, m_director |-> <<"Ann">>,
    uniqueID |-> "tt01", m_iDbId |-> 7,
    ratings |-> [t \in RatingTypes |->
                   IF t = "other" THEN NoRating ELSE [rating |-> 75, votes |-> 12]],
    m_iUserRating |-> 8, m_year |-> 2018, m_firstAired |-> 17800,
    m_premiered |-> 17700,
    m_strPlot |-> "A plot", m_strTrailer |-> "/tv/show/trailer.mkv",
    m_strPlotOutline |-> "An outline",
    m_iEpisode |-> 2, m_iSeason |-> 1, m_strShowTitle |-> "Show",
    m_studio |-> <<"HBO">>, m_country |-> <<"US", "UK">>,
    m_strMPAARating |-> "TV-14", m_iTop250 |-> 5, cast |-> "Bob",
    castAndRole |-> "Bob as Rob", m_artist |-> <<"Band">>,
    m_strAlbum |-> "Album", m_writingCredits |-> <<"Cy">>,
    m_strTagLine |-> "A tagline", m_lastPlayed |-> 17500, playCount |-> 1,
    duration |-> 3725, m_iTrack |-> 3, m_type |-> "episode",
    m_strStatus |-> "Ended", m_tags |-> <<"tag1", "tag2">>,
    setTitle |-> "A set", setId |-> 4, m_dateAdded |-> 17400, m_relevance |-> 2,
    resumePoint |-> [timeInSeconds |-> 1, totalTimeInSeconds |-> 8],
    videoCodec |-> "h264", videoWidth |-> 1920, videoHeight |-> 1080,
    videoAspect |-> 17778, audioCodec |-> "ac3", audioChannels |-> 6,
    audioLanguage |-> "eng", subtitleLanguage |-> "fre",
    stereoMode |-> "left_right", m_strFile |-> "s01e02.mkv" ]

\* CVideoInfoTag::HasYear
HasYear(tag) ==
  tag.m_year > 0 \/ IsValidDate(tag.m_firstAired) \/ IsValidDate(tag.m_premiered)

\* CVideoInfoTag::GetYear
GetYear(tag) ==
  IF tag.m_year > 0 THEN tag.m_year
  ELSE IF IsValidDate(tag.m_firstAired) THEN GetYearOfDate(tag.m_firstAired)
  ELSE IF IsValidDate(tag.m_premiered) THEN GetYearOfDate(tag.m_premiered)
  ELSE 0

\* CVideoInfoTag::HasPremiered: the premiere date has been set to a valid date
HasPremiered(tag) == IsValidDate(tag.m_premiered)

\* CVideoInfoTag::IsEmpty
IsEmpty(tag) == tag.m_strTitle = "" /\ tag.m_strFile = "" /\ tag.m_strPath = ""

\* the tag t with field f set to v
WithField(t, f, v) == [g \in DOMAIN t |-> IF g = f THEN v ELSE t[g]]

\* a CFileItem: what its accessors return.  thumb is GetArt("thumb") ("": no
\* such art), stereomode is GetProperty("stereomode"), hasTag tells whether
\* GetVideoInfoTag() is non-null
BaseItem ==
  [ isNull |-> FALSE, isFileItem |-> TRUE, isVideo |-> TRUE,
    isInternetStream |-> FALSE, isVideoDb |-> FALSE, m_bIsFolder |-> FALSE,
    label |-> "A label", path |-> "/videos/movie.mkv", thumb |-> "",
    stereomode |-> "", hasTag |-> TRUE, tag |-> KnownTag ]

\* CFileItem::HasArt("thumb")
HasThumb(item) == item.thumb # ""

(***************************************************************************)
(* GetLabel.  A case of the switch either returns (done) with found and    *)
(* the out-parameter value, or breaks out of the switch (not done) and     *)
(* leaves the decision to the code after it.                               *)
(***************************************************************************)
Return(found, value) == [done |-> TRUE, found |-> found, value |-> value]
Break(value) == [done |-> FALSE, found |-> FALSE, value |-> value]

\* a formatted number returned without the test of its guard
ReturnUnguarded(guard, formatted, value) == Return(TRUE, formatted)

\* if (guard) { value = formatted; return true; } break;
ReturnIf(guard, formatted, value) ==
  IF guard THEN Return(TRUE, formatted) ELSE Break(value)

\* a title that prefers the item label to the tag's title
LabelTitleLabelFirst(item, tag) ==
  LET v1 == item.label
      v2 == IF v1 = "" THEN tag.m_strTitle ELSE v1
      v3 == IF v2 = "" THEN GetTitleFromPath(item.path) ELSE v2
  IN Return(TRUE, v3)

\* case PLAYER_TITLE, VIDEOPLAYER_TITLE
LabelTitle(item, tag) ==
  LET v1 == tag.m_strTitle
      v2 == IF v1 = "" THEN item.label ELSE v1
      v3 == IF v2 = "" THEN GetTitleFromPath(item.path) ELSE v2
  IN Return(TRUE, v3)

\* an episode label that tests the season for the unknown value -1
LabelEpisodeSeasonUnknown(tag, value) ==
  LET iSeason == IF tag.m_iEpisode > 0 THEN tag.m_iSeason ELSE -1
      iEpisode == IF tag.m_iEpisode > 0 THEN tag.m_iEpisode ELSE -1
  IN IF iEpisode >= 0
     THEN IF iSeason <= 0
          THEN Return(TRUE, "S" \o FormatInt(iEpisode))
          ELSE Return(TRUE, FormatInt(iEpisode))
     ELSE Break(value)

\* case VIDEOPLAYER_EPISODE, LISTITEM_EPISODE
LabelEpisode(tag, value) ==
  LET iSeason == IF tag.m_iEpisode > 0 THEN tag.m_iSeason ELSE -1
      iEpisode == IF tag.m_iEpisode > 0 THEN tag.m_iEpisode ELSE -1
  IN IF iEpisode >= 0
     THEN IF iSeason = 0
          THEN Return(TRUE, "S" \o FormatInt(iEpisode))
          ELSE Return(TRUE, FormatInt(iEpisode))
     ELSE Break(value)

\* a plot guard that forgets the setting
LabelPlotNoSetting(tag, showUnwatchedPlots) ==
  IF /\ tag.m_type # "tvshow"
     /\ tag.m_type # "set"
     /\ tag.playCount = 0
  THEN Return(TRUE, HiddenPlotText)
  ELSE Return(TRUE, tag.m_strPlot)

\* case LISTITEM_PLOT; MediaTypeTvShow is "tvshow", MediaTypeVideoCollection "set"
LabelPlot(tag, showUnwatchedPlots) ==
  IF /\ tag.m_type # "tvshow"
     /\ tag.m_type # "set"
     /\ tag.playCount = 0
     /\ ~showUnwatchedPlots
  THEN Return(TRUE, HiddenPlotText)
  ELSE Return(TRUE, tag.m_strPlot)

\* a rating label returned for a rating of zero as well
LabelRatingFromZero(tag, data3, value) ==
  LET rating == tag.ratings[data3].rating
  IN ReturnIf(rating >= 0, FormatNumberFloat(rating), value)

\* case VIDEOPLAYER_RATING, LISTITEM_RATING
LabelRating(tag, data3, value) ==
  LET rating == tag.ratings[data3].rating
  IN ReturnIf(rating > 0, FormatNumberFloat(rating), value)

\* case VIDEOPLAYER_RATING_AND_VOTES, LISTITEM_RATING_AND_VOTES
LabelRatingAndVotes(tag, data3, value) ==
  LET rating == tag.ratings[data3]
  IN ReturnIf(rating.rating > 0,
              IF rating.votes = 0 THEN FormatNumberFloat(rating.rating)
              ELSE FormatRatingAndVotes(FormatNumberFloat(rating.rating),
                                        FormatNumberInt(rating.votes)),
              value)

\* case VIDEOPLAYER_USER_RATING, LISTITEM_USER_RATING
LabelUserRating(tag, value) ==
  ReturnIf(tag.m_iUserRating > 0, FormatInt(tag.m_iUserRating), value)

\* a votes label returned only for a vote count above zero
LabelVotesGuarded(tag, data3) ==
  ReturnIf(tag.ratings[data3].votes > 0,
           FormatNumberInt(tag.ratings[data3].votes), "")

\* case VIDEOPLAYER_VOTES, LISTITEM_VOTES
LabelVotes(tag, data3) ==
  Return(TRUE, FormatNumberInt(tag.ratings[data3].votes))

\* case VIDEOPLAYER_PREMIERED, LISTITEM_PREMIERED
LabelPremiered(tag, value) ==
  LET dateTime == IF IsValidDate(tag.m_firstAired) THEN tag.m_firstAired
                  ELSE IF HasPremiered(tag) THEN tag.m_premiered
                  ELSE 0
  IN ReturnIf(IsValidDate(dateTime), GetAsLocalizedDate(dateTime), value)

\* case PLAYER_PATH, PLAYER_FILENAME, PLAYER_FILEPATH
LabelPlayerPath(item, tag, info) ==
  LET v1 == tag.m_strFileNameAndPath
      v2 == IF v1 = "" THEN item.path ELSE v1
  IN Return(TRUE, GetFileInfoLabelValueFromPath(info, v2))

\* case LISTITEM_FILENAME, LISTITEM_FILE_EXTENSION
LabelFileName(item, tag, info) ==
  LET v1 == IF item.isVideoDb THEN GetFileName(tag.m_strFileNameAndPath)
            ELSE GetFileName(item.path)
  IN IF info = "LISTITEM_FILE_EXTENSION"
     THEN Return(TRUE, TrimLeftDots(GetExtension(v1)))
     ELSE Return(TRUE, v1)

\* case LISTITEM_FOLDERNAME, LISTITEM_PATH
LabelFolder(item, tag, info) ==
  LET v1 == IF item.isVideoDb
            THEN IF item.m_bIsFolder THEN tag.m_strPath
                 ELSE GetParentPath(tag.m_strFileNameAndPath)
            ELSE GetParentPath(item.path)
      v2 == GetWithoutUserDetails(v1)
  IN IF info = "LISTITEM_FOLDERNAME"
     THEN Return(TRUE, GetFileName(RemoveSlashAtEnd(v2)))
     ELSE Return(TRUE, v2)

\* case LISTITEM_FILENAME_AND_PATH
LabelFileNameAndPath(item, tag) ==
  Return(TRUE, GetWithoutUserDetails(IF item.isVideoDb THEN tag.m_strFileNameAndPath
                                     ELSE item.path))

\* the switch on info.m_info entered when the item has a video info tag
GetLabelTag(item, tag, info, data3, data4, now, showUnwatchedPlots, value) ==
  CASE info \in {"PLAYER_PATH", "PLAYER_FILENAME", "PLAYER_FILEPATH"} ->
         LabelPlayerPath(item, tag, info)
    [] info \in {"PLAYER_TITLE", "VIDEOPLAYER_TITLE"} -> LabelTitle(item, tag)
    [] info = "LISTITEM_TITLE" -> Return(tag.m_strTitle # "", tag.m_strTitle)
    [] info \in {"VIDEOPLAYER_ORIGINALTITLE", "LISTITEM_ORIGINALTITLE"} ->
         Return(TRUE, tag.m_strOriginalTitle)
    [] info \in {"VIDEOPLAYER_GENRE", "LISTITEM_GENRE"} ->
         Return(TRUE, Join(tag.m_genre, VideoItemSeparator))
    [] info \in {"VIDEOPLAYER_DIRECTOR", "LISTITEM_DIRECTOR"} ->
         Return(TRUE, Join(tag.m_director, VideoItemSeparator))
    [] info \in {"VIDEOPLAYER_IMDBNUMBER", "LISTITEM_IMDBNUMBER"} ->
         Return(TRUE, tag.uniqueID)
    [] info \in {"VIDEOPLAYER_DBID", "LISTITEM_DBID"} ->
         ReturnIf(tag.m_iDbId > -1, FormatInt(tag.m_iDbId), value)
    [] info \in {"VIDEOPLAYER_RATING", "LISTITEM_RATING"} ->
         LabelRating(tag, data3, value)
    [] info \in {"VIDEOPLAYER_RATING_AND_VOTES", "LISTITEM_RATING_AND_VOTES"} ->
         LabelRatingAndVotes(tag, data3, value)
    [] info \in {"VIDEOPLAYER_USER_RATING", "LISTITEM_USER_RATING"} ->
         LabelUserRating(tag, value)
    [] info \in {"VIDEOPLAYER_VOTES", "LISTITEM_VOTES"} -> LabelVotes(tag, data3)
    [] info \in {"VIDEOPLAYER_YEAR", "LISTITEM_YEAR"} ->
         ReturnIf(HasYear(tag), FormatInt(GetYear(tag)), value)
    [] info \in {"VIDEOPLAYER_PREMIERED", "LISTITEM_PREMIERED"} ->
         LabelPremiered(tag, value)
    [] info = "VIDEOPLAYER_PLOT" -> Return(TRUE, tag.m_strPlot)
    [] info \in {"VIDEOPLAYER_TRAILER", "LISTITEM_TRAILER"} ->
         Return(TRUE, tag.m_strTrailer)
    [] info \in {"VIDEOPLAYER_PLOT_OUTLINE", "LISTITEM_PLOT_OUTLINE"} ->
         Return(TRUE, tag.m_strPlotOutline)
    [] info \in {"VIDEOPLAYER_EPISODE", "LISTITEM_EPISODE"} ->
         LabelEpisode(tag, value)
    [] info \in {"VIDEOPLAYER_SEASON", "LISTITEM_SEASON"} ->
         ReturnIf(tag.m_iSeason > 0, FormatInt(tag.m_iSeason), value)
    [] info \in {"VIDEOPLAYER_TVSHOW", "LISTITEM_TVSHOW"} ->
         Return(TRUE, tag.m_strShowTitle)
    [] info \in {"VIDEOPLAYER_STUDIO", "LISTITEM_STUDIO"} ->
         Return(TRUE, Join(tag.m_studio, VideoItemSeparator))
    [] info \in {"VIDEOPLAYER_COUNTRY", "LISTITEM_COUNTRY"} ->
         Return(TRUE, Join(tag.m_country, VideoItemSeparator))
    [] info \in {"VIDEOPLAYER_MPAA", "LISTITEM_MPAA"} ->
         Return(TRUE, tag.m_strMPAARating)
    [] info \in {"VIDEOPLAYER_TOP250", "LISTITEM_TOP250"} ->
         ReturnIf(tag.m_iTop250 > 0, FormatInt(tag.m_iTop250), value)
    [] info \in {"VIDEOPLAYER_CAST", "LISTITEM_CAST"} -> Return(TRUE, tag.cast)
    [] info \in {"VIDEOPLAYER_CAST_AND_ROLE", "LISTITEM_CAST_AND_ROLE"} ->
         Return(TRUE, tag.castAndRole)
    [] info \in {"VIDEOPLAYER_ARTIST", "LISTITEM_ARTIST"} ->
         Return(TRUE, Join(tag.m_artist, VideoItemSeparator))
    [] info \in {"VIDEOPLAYER_ALBUM", "LISTITEM_ALBUM"} ->
         Return(TRUE, tag.m_strAlbum)
    [] info \in {"VIDEOPLAYER_WRITER", "LISTITEM_WRITER"} ->
         Return(TRUE, Join(tag.m_writingCredits, VideoItemSeparator))
    [] info \in {"VIDEOPLAYER_TAGLINE", "LISTITEM_TAGLINE"} ->
         Return(TRUE, tag.m_strTagLine)
    [] info \in {"VIDEOPLAYER_LASTPLAYED", "LISTITEM_LASTPLAYED"} ->
         ReturnIf(IsValidDate(tag.m_lastPlayed),
                  GetAsLocalizedDate(tag.m_lastPlayed), value)
    [] info \in {"VIDEOPLAYER_PLAYCOUNT", "LISTITEM_PLAYCOUNT"} ->
         ReturnIf(tag.playCount > 0, FormatInt(tag.playCount), value)
    [] info = "LISTITEM_DURATION" ->
         ReturnIf(tag.duration > 0, SecondsToTimeString(tag.duration, data4), value)
    [] info = "LISTITEM_TRACKNUMBER" ->
         ReturnIf(tag.m_iTrack > -1, FormatInt(tag.m_iTrack), value)
    [] info = "LISTITEM_PLOT" -> LabelPlot(tag, showUnwatchedPlots)
    [] info = "LISTITEM_STATUS" -> Return(TRUE, tag.m_strStatus)
    [] info = "LISTITEM_TAG" -> Return(TRUE, Join(tag.m_tags, VideoItemSeparator))
    [] info = "LISTITEM_SET" -> Return(TRUE, tag.setTitle)
    [] info = "LISTITEM_SETID" ->
         ReturnIf(tag.setId > 0, FormatInt(tag.setId), value)
    [] info = "LISTITEM_ENDTIME_RESUME" ->
         Return(TRUE, GetAsLocalizedTime(now,
                        tag.duration - tag.resumePoint.timeInSeconds))
    [] info = "LISTITEM_ENDTIME" ->
         Return(TRUE, GetAsLocalizedTime(now, tag.duration))
    [] info = "LISTITEM_DATE_ADDED" ->
         ReturnIf(IsValidDate(tag.m_dateAdded),
                  GetAsLocalizedDate(tag.m_dateAdded), value)
    [] info = "LISTITEM_DBTYPE" -> Return(TRUE, tag.m_type)
    [] info = "LISTITEM_APPEARANCES" ->
         ReturnIf(tag.m_relevance > -1, FormatInt(tag.m_relevance), value)
    [] info = "LISTITEM_PERCENT_PLAYED" ->
         Return(TRUE, FormatInt(GetPercentPlayed(tag)))
    [] info = "LISTITEM_VIDEO_CODEC" -> Return(TRUE, tag.videoCodec)
    [] info = "LISTITEM_VIDEO_RESOLUTION" ->
         Return(TRUE, VideoDimsToResolutionDescription(tag.videoWidth,
                                                       tag.videoHeight))
    [] info = "LISTITEM_VIDEO_ASPECT" ->
         Return(TRUE, VideoAspectToAspectDescription(tag.videoAspect))
    [] info = "LISTITEM_AUDIO_CODEC" -> Return(TRUE, tag.audioCodec)
    [] info = "LISTITEM_AUDIO_CHANNELS" ->
         ReturnIf(tag.audioChannels > 0, FormatInt(tag.audioChannels), value)
    [] info = "LISTITEM_AUDIO_LANGUAGE" -> Return(TRUE, tag.audioLanguage)
    [] info = "LISTITEM_SUBTITLE_LANGUAGE" -> Return(TRUE, tag.subtitleLanguage)
    [] info \in {"LISTITEM_FILENAME", "LISTITEM_FILE_EXTENSION"} ->
         LabelFileName(item, tag, info)
    [] info \in {"LISTITEM_FOLDERNAME", "LISTITEM_PATH"} ->
         LabelFolder(item, tag, info)
    [] info = "LISTITEM_FILENAME_AND_PATH" -> LabelFileNameAndPath(item, tag)
    [] OTHER -> Break(value)

\* a bitrate label obtained by integer division instead of lrint
LabelBitrateTruncated(iBitrate, value) ==
  ReturnIf(iBitrate > 0, FormatInt(RoundTruncate(iBitrate, 1000)), value)

\* case VIDEOPLAYER_AUDIO_BITRATE, VIDEOPLAYER_VIDEO_BITRATE
LabelBitrate(iBitrate, value) ==
  ReturnIf(iBitrate > 0, FormatInt(lrint(iBitrate, 1000)), value)

\* case LISTITEM_STEREOSCOPIC_MODE
LabelStereoscopicMode(item) ==
  LET v1 == item.stereomode
  IN IF v1 = "" /\ item.hasTag
     THEN Return(TRUE, NormalizeStereoMode(item.tag.stereoMode))
     ELSE Return(TRUE, v1)

\* the switch on info.m_info that needs no video info tag
GetLabelPlayback(item, info, app, videoInfo, audioInfo, subtitleInfo, value) ==
  CASE info = "VIDEOPLAYER_PLAYLISTLEN" ->
         ReturnIf(app.playlistIsVideo, FormatInt(app.playlistLength), value)
    [] info = "VIDEOPLAYER_PLAYLISTPOS" ->
         ReturnIf(app.playlistIsVideo, FormatInt(app.playlistPosition), value)
    [] info = "VIDEOPLAYER_VIDEO_ASPECT" ->
         Return(TRUE, VideoAspectToAspectDescription(app.videoDAR))
    [] info = "VIDEOPLAYER_STEREOSCOPIC_MODE" -> Return(TRUE, app.videoStereoMode)
    [] info = "VIDEOPLAYER_SUBTITLES_LANG" -> Return(TRUE, subtitleInfo.language)
    [] info = "VIDEOPLAYER_COVER" ->
         ReturnIf(app.isPlayingVideo,
                  IF HasThumb(item) THEN item.thumb ELSE "DefaultVideoCover.png",
                  value)
    [] info = "LISTITEM_STEREOSCOPIC_MODE" -> LabelStereoscopicMode(item)
    [] info = "VIDEOPLAYER_VIDEO_CODEC" -> Return(TRUE, videoInfo.codecName)
    [] info = "VIDEOPLAYER_VIDEO_RESOLUTION" ->
         Return(TRUE, VideoDimsToResolutionDescription(videoInfo.width,
                                                       videoInfo.height))
    [] info = "VIDEOPLAYER_AUDIO_CODEC" -> Return(TRUE, audioInfo.codecName)
    [] info = "VIDEOPLAYER_AUDIO_CHANNELS" ->
         ReturnIf(audioInfo.channels > 0, FormatInt(audioInfo.channels), value)
    [] info = "VIDEOPLAYER_AUDIO_BITRATE" -> LabelBitrate(audioInfo.bitrate, value)
    [] info = "VIDEOPLAYER_VIDEO_BITRATE" -> LabelBitrate(videoInfo.bitrate, value)
    [] info = "VIDEOPLAYER_AUDIO_LANG" -> Return(TRUE, audioInfo.language)
    [] OTHER -> Break(value)

\* the fallback argument of a caller that passes a null pointer
NullFallback == "nullptr"

\* CVideoGUIInfo::GetLabel: [found, value, fallback] for a non-null item; value
\* and fallback are the out-parameters after the call
GetLabel(value, item, info, data3, data4, now, app, videoInfo, audioInfo, subtitleInfo, fallback) ==
  LET first == IF item.hasTag
               THEN GetLabelTag(item, item.tag, info, data3, data4, now,
                                app.showUnwatchedPlots, value)
               ELSE Break(value)
      second == IF first.done THEN first
                ELSE GetLabelPlayback(item, info, app, videoInfo, audioInfo,
                                      subtitleInfo, first.value)
  IN [found |-> second.done /\ second.found,
      value |-> second.value,
      fallback |-> IF /\ ~first.done
                      /\ info = "VIDEOPLAYER_COVER"
                      /\ app.isPlayingVideo
                      /\ fallback # NullFallback
                   THEN "DefaultVideoCover.png" ELSE fallback]

\* a GetInt that zeroes the out-parameter when it resolves nothing
GetIntClearsValue(value, gitem, info) ==
  IF gitem.isFileItem /\ gitem.hasTag /\ info = "LISTITEM_PERCENT_PLAYED"
  THEN [found |-> TRUE, value |-> GetPercentPlayed(gitem.tag)]
  ELSE [found |-> FALSE, value |-> 0]

\* CVideoGUIInfo::GetInt: [found, value]
GetInt(value, gitem, info) ==
  IF ~gitem.isFileItem THEN [found |-> FALSE, value |-> value]
  ELSE IF gitem.hasTag /\ info = "LISTITEM_PERCENT_PLAYED"
  THEN [found |-> TRUE, value |-> GetPercentPlayed(gitem.tag)]
  ELSE [found |-> FALSE, value |-> value]

\* a content match that reports the mismatch as a resolved false
BoolContentAlwaysFound(item, data3) ==
  LET strContent ==
        IF ~item.hasTag THEN "files"
        ELSE IF item.tag.m_type = "movie" THEN "movies"
        ELSE IF item.tag.m_type = "episode" THEN "episodes"
        ELSE IF item.tag.m_type = "musicvideo" THEN "musicvideos"
        ELSE "files"
      match == EqualsNoCase(data3, strContent)
  IN Return(TRUE, match)

\* case VIDEOPLAYER_CONTENT; MediaTypeMovie is "movie", MediaTypeEpisode
\* "episode", MediaTypeMusicVideo "musicvideo"
BoolContent(item, data3) ==
  LET strContent ==
        IF ~item.hasTag THEN "files"
        ELSE IF item.tag.m_type = "movie" THEN "movies"
        ELSE IF item.tag.m_type = "episode" THEN "episodes"
        ELSE IF item.tag.m_type = "musicvideo" THEN "musicvideos"
        ELSE "files"
      match == EqualsNoCase(data3, strContent)
  IN Return(match, match)

\* case LISTITEM_IS_STEREOSCOPIC: value is assigned only in the stereo case
BoolIsStereoscopic(item, value) ==
  LET prop == item.stereomode
      stereoMode == IF prop = "" /\ item.hasTag
                    THEN NormalizeStereoMode(item.tag.stereoMode) ELSE prop
  IN IF stereoMode # "" /\ stereoMode # "mono"
     THEN Return(TRUE, TRUE)
     ELSE Return(TRUE, value)

\* the switch of GetBool entered when the item has a video info tag
GetBoolTag(tag, info, value) ==
  CASE info = "VIDEOPLAYER_HAS_INFO" -> Return(TRUE, ~IsEmpty(tag))
    [] info = "LISTITEM_IS_RESUMABLE" ->
         Return(TRUE, tag.resumePoint.timeInSeconds > 0)
    [] info = "LISTITEM_IS_COLLECTION" -> Return(TRUE, tag.m_type = "set")
    [] OTHER -> Break(value)

\* the switch of GetBool that needs no video info tag
GetBoolPlayback(item, info, data3, app, value) ==
  CASE info = "VIDEOPLAYER_CONTENT" -> BoolContent(item, data3)
    [] info = "VIDEOPLAYER_USING_OVERLAYS" -> Return(TRUE, app.renderOverlays)
    [] info = "VIDEOPLAYER_ISFULLSCREEN" ->
         Return(TRUE, \/ app.activeWindow = "WINDOW_FULLSCREEN_VIDEO"
                      \/ app.activeWindow = "WINDOW_FULLSCREEN_GAME")
    [] info = "VIDEOPLAYER_HASMENU" -> Return(TRUE, app.hasMenu)
    [] info = "VIDEOPLAYER_HASTELETEXT" ->
         IF app.hasTeletext THEN Return(TRUE, TRUE) ELSE Break(value)
    [] info = "VIDEOPLAYER_HASSUBTITLES" -> Return(TRUE, app.subtitleCount > 0)
    [] info = "VIDEOPLAYER_SUBTITLESENABLED" -> Return(TRUE, app.subtitleVisible)
    [] info = "VIDEOPLAYER_IS_STEREOSCOPIC" ->
         Return(TRUE, app.videoStereoMode # "")
    [] info = "LISTITEM_IS_STEREOSCOPIC" -> BoolIsStereoscopic(item, value)
    [] OTHER -> Break(value)

\* CVideoGUIInfo::GetBool: [found, value]
GetBool(value, gitem, info, data3, app) ==
  IF ~gitem.isFileItem THEN [found |-> FALSE, value |-> value]
  ELSE LET first == IF gitem.hasTag THEN GetBoolTag(gitem.tag, info, value)
                    ELSE Break(value)
           second == IF first.done THEN first
                     ELSE GetBoolPlayback(gitem, info, data3, app, first.value)
       IN [found |-> second.done /\ second.found, value |-> second.value]

(***************************************************************************)
(* InitCurrentItem.  The thumb loader is a collaborator: loadedThumb is    *)
(* the thumb LoadItem leaves on the item ("": it finds none), filledThumb  *)
(* the thumb FillThumb finds for the playlist file ("": FillThumb fails).  *)
(***************************************************************************)
NullItem == [isNull |-> TRUE]

\* CVideoThumbLoader::LoadItem(item)
LoadItem(item, loadedThumb) == [item EXCEPT !.thumb = loadedThumb]

\* an InitCurrentItem that runs the thumb loader whether or not a thumb is cached
InitCurrentItemAlwaysLoads(item, app, loadedThumb, filledThumb) ==
  IF item.isNull \/ ~item.isVideo
  THEN [ret |-> FALSE, item |-> item, loadItem |-> 0, fillThumb |-> 0]
  ELSE IF item.isInternetStream /\ app.isPlayingAudio
  THEN [ret |-> FALSE, item |-> item, loadItem |-> 0, fillThumb |-> 0]
  ELSE LET item1 == LoadItem(item, loadedThumb)
           fill == item.isInternetStream /\ app.m_strPlayListFile # ""
           item2 == IF fill /\ filledThumb # ""
                    THEN [item1 EXCEPT !.thumb = filledThumb] ELSE item1
       IN [ret |-> TRUE, item |-> item2, loadItem |-> 1,
           fillThumb |-> IF fill THEN 1 ELSE 0]

\* CVideoGUIInfo::InitCurrentItem: the return value, the item after the call
\* and the number of LoadItem and FillThumb calls made
InitCurrentItem(item, app, loadedThumb, filledThumb) ==
  IF item.isNull \/ ~item.isVideo
  THEN [ret |-> FALSE, item |-> item, loadItem |-> 0, fillThumb |-> 0]
  ELSE IF item.isInternetStream /\ app.isPlayingAudio
  THEN [ret |-> FALSE, item |-> item, loadItem |-> 0, fillThumb |-> 0]
  ELSE LET load == ~HasThumb(item)
           item1 == IF load THEN LoadItem(item, loadedThumb) ELSE item
           fill == item.isInternetStream /\ app.m_strPlayListFile # ""
           item2 == IF fill /\ filledThumb # ""
                    THEN [item1 EXCEPT !.thumb = filledThumb] ELSE item1
       IN [ret |-> TRUE, item |-> item2, loadItem |-> IF load THEN 1 ELSE 0,
           fillThumb |-> IF fill THEN 1 ELSE 0]

(***************************************************************************)
(* State.                                                                  *)
(***************************************************************************)
VARIABLES
  item,            \* the CFileItem under query, or NullItem
  app,             \* what the code reads of g_application, the player, the
                   \* playlist player, the data cache, the settings, the GUI
  m_videoInfo,     \* VideoStreamInfo cached by the provider
  m_audioInfo,     \* AudioStreamInfo cached by the provider
  m_subtitleInfo,  \* SubtitleStreamInfo cached by the provider
  result           \* the last call: its arguments, return value, out-parameters

vars == <<item, app, m_videoInfo, m_audioInfo, m_subtitleInfo, result>>

BaseApp ==
  [ isPlayingAudio |-> FALSE, isPlayingVideo |-> TRUE, m_strPlayListFile |-> "",
    showUnwatchedPlots |-> TRUE, playlistIsVideo |-> TRUE, playlistLength |-> 3,
    playlistPosition |-> 1, videoDAR |-> 17778, videoStereoMode |-> "",
    renderOverlays |-> FALSE, activeWindow |-> "WINDOW_FULLSCREEN_VIDEO",
    hasMenu |-> FALSE, hasTeletext |-> FALSE, subtitleCount |-> 1,
    subtitleVisible |-> TRUE ]

BaseVideoInfo == [codecName |-> "h264", width |-> 1280, height |-> 720, bitrate |-> 0]
BaseAudioInfo == [codecName |-> "aac", channels |-> 2, bitrate |-> 0, language |-> "eng"]
BaseSubtitleInfo == [language |-> "fre"]

NoResult ==
  [ op |-> "none", info |-> "", data3 |-> "", data4 |-> 0, found |-> FALSE, value |-> "",
    valueIn |-> "", fallback |-> "", loadItem |-> 0, fillThumb |-> 0,
    before |-> NullItem ]

(***************************************************************************)
(* The info codes and arguments the calls are made with.                   *)
(***************************************************************************)
TagLabelCodes ==
  { "PLAYER_PATH", "PLAYER_FILENAME", "PLAYER_FILEPATH", "PLAYER_TITLE",
    "VIDEOPLAYER_TITLE", "LISTITEM_TITLE", "VIDEOPLAYER_ORIGINALTITLE",
    "LISTITEM_ORIGINALTITLE", "VIDEOPLAYER_GENRE", "LISTITEM_GENRE",
    "VIDEOPLAYER_DIRECTOR", "LISTITEM_DIRECTOR", "VIDEOPLAYER_IMDBNUMBER",
    "LISTITEM_IMDBNUMBER", "VIDEOPLAYER_DBID", "LISTITEM_DBID",
    "VIDEOPLAYER_RATING", "LISTITEM_RATING", "VIDEOPLAYER_RATING_AND_VOTES",
    "LISTITEM_RATING_AND_VOTES", "VIDEOPLAYER_USER_RATING",
    "LISTITEM_USER_RATING", "VIDEOPLAYER_VOTES", "LISTITEM_VOTES",
    "VIDEOPLAYER_YEAR", "LISTITEM_YEAR", "VIDEOPLAYER_PREMIERED",
    "LISTITEM_PREMIERED", "VIDEOPLAYER_PLOT", "VIDEOPLAYER_TRAILER",
    "LISTITEM_TRAILER", "VIDEOPLAYER_PLOT_OUTLINE", "LISTITEM_PLOT_OUTLINE",
    "VIDEOPLAYER_EPISODE", "LISTITEM_EPISODE", "VIDEOPLAYER_SEASON",
    "LISTITEM_SEASON", "VIDEOPLAYER_TVSHOW", "LISTITEM_TVSHOW",
    "VIDEOPLAYER_STUDIO", "LISTITEM_STUDIO", "VIDEOPLAYER_COUNTRY",
    "LISTITEM_COUNTRY", "VIDEOPLAYER_MPAA", "LISTITEM_MPAA",
    "VIDEOPLAYER_TOP250", "LISTITEM_TOP250", "VIDEOPLAYER_CAST",
    "LISTITEM_CAST", "VIDEOPLAYER_CAST_AND_ROLE", "LISTITEM_CAST_AND_ROLE",
    "VIDEOPLAYER_ARTIST", "LISTITEM_ARTIST", "VIDEOPLAYER_ALBUM",
    "LISTITEM_ALBUM", "VIDEOPLAYER_WRITER", "LISTITEM_WRITER",
    "VIDEOPLAYER_TAGLINE", "LISTITEM_TAGLINE", "VIDEOPLAYER_LASTPLAYED",
    "LISTITEM_LASTPLAYED", "VIDEOPLAYER_PLAYCOUNT", "LISTITEM_PLAYCOUNT",
    "LISTITEM_DURATION", "LISTITEM_TRACKNUMBER", "LISTITEM_PLOT",
    "LISTITEM_STATUS", "LISTITEM_TAG", "LISTITEM_SET", "LISTITEM_SETID",
    "LISTITEM_ENDTIME_RESUME", "LISTITEM_ENDTIME", "LISTITEM_DATE_ADDED",
    "LISTITEM_DBTYPE", "LISTITEM_APPEARANCES", "LISTITEM_PERCENT_PLAYED",
    "LISTITEM_VIDEO_CODEC", "LISTITEM_VIDEO_RESOLUTION",
    "LISTITEM_VIDEO_ASPECT", "LISTITEM_AUDIO_CODEC", "LISTITEM_AUDIO_CHANNELS",
    "LISTITEM_AUDIO_LANGUAGE", "LISTITEM_SUBTITLE_LANGUAGE",
    "LISTITEM_FILENAME", "LISTITEM_FILE_EXTENSION", "LISTITEM_FOLDERNAME",
    "LISTITEM_PATH", "LISTITEM_FILENAME_AND_PATH" }

PlaybackLabelCodes ==
  { "VIDEOPLAYER_PLAYLISTLEN", "VIDEOPLAYER_PLAYLISTPOS",
    "VIDEOPLAYER_VIDEO_ASPECT", "VIDEOPLAYER_STEREOSCOPIC_MODE",
    "VIDEOPLAYER_SUBTITLES_LANG", "VIDEOPLAYER_COVER",
    "LISTITEM_STEREOSCOPIC_MODE", "VIDEOPLAYER_VIDEO_CODEC",
    "VIDEOPLAYER_VIDEO_RESOLUTION", "VIDEOPLAYER_AUDIO_CODEC",
    "VIDEOPLAYER_AUDIO_CHANNELS", "VIDEOPLAYER_AUDIO_BITRATE",
    "VIDEOPLAYER_VIDEO_BITRATE", "VIDEOPLAYER_AUDIO_LANG" }

\* a code of another provider
ForeignCode == "SYSTEM_TIME"

LabelCodes == TagLabelCodes \cup PlaybackLabelCodes \cup {ForeignCode}

RatingCodes ==
  { "VIDEOPLAYER_RATING", "LISTITEM_RATING", "VIDEOPLAYER_RATING_AND_VOTES",
    "LISTITEM_RATING_AND_VOTES", "VIDEOPLAYER_VOTES", "LISTITEM_VOTES" }

EndTimeCodes == {"LISTITEM_ENDTIME_RESUME", "LISTITEM_ENDTIME"}

IntCodes == {"LISTITEM_PERCENT_PLAYED", "LISTITEM_DURATION", ForeignCode}

BoolCodes ==
  { "VIDEOPLAYER_HAS_INFO", "LISTITEM_IS_RESUMABLE", "LISTITEM_IS_COLLECTION",
    "VIDEOPLAYER_CONTENT", "VIDEOPLAYER_USING_OVERLAYS",
    "VIDEOPLAYER_ISFULLSCREEN", "VIDEOPLAYER_HASMENU",
    "VIDEOPLAYER_HASTELETEXT", "VIDEOPLAYER_HASSUBTITLES",
    "VIDEOPLAYER_SUBTITLESENABLED", "VIDEOPLAYER_IS_STEREOSCOPIC",
    "LISTITEM_IS_STEREOSCOPIC", ForeignCode }

\* the content names a skin asks for, in several spellings
ContentStrings ==
  { "movies", "MOVIES", "Movies", "episodes", "EPISODES", "musicvideos",
    "MusicVideos", "files", "FILES", "movie", "tvshows", "" }

\* info.GetData3() of a call
LabelData3(info) == IF info \in RatingCodes THEN RatingTypes ELSE {""}

\* info.GetData4() of a call: the TIME_FORMAT of a duration
LabelData4(info) ==
  IF info = "LISTITEM_DURATION"
  THEN {TIME_FORMAT_GUESS, TIME_FORMAT_MM_SS, TIME_FORMAT_HH_MM_SS,
        TIME_FORMAT_H_MM_SS, TIME_FORMAT_SECS, TIME_FORMAT_MINS,
        TIME_FORMAT_HOURS, TIME_FORMAT_M}
  ELSE {TIME_FORMAT_GUESS}

BoolData3(info) == IF info = "VIDEOPLAYER_CONTENT" THEN ContentStrings ELSE {""}

\* CDateTime::GetCurrentDateTime() during a call
LabelNow(info) == IF info \in EndTimeCodes THEN 0..MaxNow ELSE {0}

\* what the thumb loader may find
LoadedThumbs == {"", "thumb-of-item.jpg"}
FilledThumbs == {"", "thumb-of-playlist.jpg"}

(***************************************************************************)
(* The operations.  The provider is called synchronously: a call is made   *)
(* when no result is pending, and the caller takes the result of a call    *)
(* before it makes the next one.                                           *)
(***************************************************************************)
Idle == result.op = "none"

DoInitCurrentItem ==
  /\ Idle
  /\ \E loadedThumb \in LoadedThumbs, filledThumb \in FilledThumbs :
      LET r == InitCurrentItem(item, app, loadedThumb, filledThumb)
      IN /\ item' = r.item
         /\ result' = [NoResult EXCEPT !.op = "InitCurrentItem", !.found = r.ret,
                         !.loadItem = r.loadItem, !.fillThumb = r.fillThumb,
                         !.before = item]
  /\ UNCHANGED <<app, m_videoInfo, m_audioInfo, m_subtitleInfo>>

DoGetLabel ==
  /\ Idle
  /\ ~item.isNull
  /\ \E info \in LabelCodes :
       \E data3 \in LabelData3(info), data4 \in LabelData4(info),
          now \in LabelNow(info) :
         LET r == GetLabel("", item, info, data3, data4, now, app, m_videoInfo,
                           m_audioInfo, m_subtitleInfo, "")
         IN result' = [NoResult EXCEPT !.op = "GetLabel", !.info = info,
                         !.data3 = data3, !.data4 = data4,
                         !.found = r.found, !.value = r.value,
                         !.fallback = r.fallback, !.before = item]
  /\ UNCHANGED <<item, app, m_videoInfo, m_audioInfo, m_subtitleInfo>>

DoGetInt ==
  /\ Idle
  /\ ~item.isNull
  /\ \E info \in IntCodes, valueIn \in {0, 55} :
       LET r == GetInt(valueIn, item, info)
       IN result' = [NoResult EXCEPT !.op = "GetInt", !.info = info,
                       !.found = r.found, !.value = r.value,
                       !.valueIn = valueIn, !.before = item]
  /\ UNCHANGED <<item, app, m_videoInfo, m_audioInfo, m_subtitleInfo>>

DoGetBool ==
  /\ Idle
  /\ ~item.isNull
  /\ \E info \in BoolCodes, valueIn \in BOOLEAN :
       \E data3 \in BoolData3(info) :
         LET r == GetBool(valueIn, item, info, data3, app)
         IN result' = [NoResult EXCEPT !.op = "GetBool", !.info = info,
                         !.data3 = data3, !.found = r.found, !.value = r.value,
                         !.valueIn = valueIn, !.before = item]
  /\ UNCHANGED <<item, app, m_videoInfo, m_audioInfo, m_subtitleInfo>>

\* the caller has read the return value and the out-parameters
TakeResult ==
  /\ ~Idle
  /\ result' = NoResult
  /\ UNCHANGED <<item, app, m_videoInfo, m_audioInfo, m_subtitleInfo>>

Next ==
  DoInitCurrentItem \/ DoGetLabel \/ DoGetInt \/ DoGetBool \/ TakeResult

(***************************************************************************)
(* Initial states: the items and playback states the calls are made on.    *)
(* Each specification draws the inputs of one family of rules.             *)
(***************************************************************************)
InitOn(items, apps, videoInfos, audioInfos) ==
  /\ item \in items
  /\ app \in apps
  /\ m_videoInfo \in videoInfos
  /\ m_audioInfo \in audioInfos
  /\ m_subtitleInfo = BaseSubtitleInfo
  /\ result = NoResult

TagItem(tag) == [BaseItem EXCEPT !.tag = tag]

\* resume points of recordings of more than 2^17 seconds, where the digits of
\* a float no longer tell elapsed/total*100 from the nearest tie
LongResumePoints ==
  { [timeInSeconds |-> 96346, totalTimeInSeconds |-> 131083],
    [timeInSeconds |-> 116012, totalTimeInSeconds |-> 131087],
    [timeInSeconds |-> 65536, totalTimeInSeconds |-> 131072] }

\* resume points, and the items GetInt rejects
PercentItems ==
  { TagItem(WithField(KnownTag, "resumePoint",
                      [timeInSeconds |-> t, totalTimeInSeconds |-> tot])) :
      t \in -1..MaxTime, tot \in -1..MaxTime }
  \cup { TagItem(WithField(KnownTag, "resumePoint", r)) : r \in LongResumePoints }
  \cup { [BaseItem EXCEPT !.isFileItem = f, !.hasTag = h] : f, h \in BOOLEAN }

InitPercent == InitOn(PercentItems, {BaseApp}, {BaseVideoInfo}, {BaseAudioInfo})

Paths == {"", "/videos/movie.mkv", "/videos/dir/", "movie.mkv"}

TitleItems ==
  { [BaseItem EXCEPT !.label = l, !.path = p, !.hasTag = h,
                     !.tag = WithField(KnownTag, "m_strTitle", t)] :
      l \in {"", "A label"}, p \in Paths, h \in BOOLEAN, t \in {"", "Pilot"} }

InitTitle == InitOn(TitleItems, {BaseApp}, {BaseVideoInfo}, {BaseAudioInfo})

EpisodeItems ==
  { TagItem(WithField(WithField(KnownTag, "m_iEpisode", e), "m_iSeason", n)) :
      e \in -1..MaxEpisode, n \in -1..MaxEpisode }

InitEpisode == InitOn(EpisodeItems, {BaseApp}, {BaseVideoInfo}, {BaseAudioInfo})

MediaTypes == {"movie", "episode", "musicvideo", "tvshow", "set", ""}

PlotItems ==
  { TagItem(WithField(WithField(WithField(KnownTag, "m_type", ty),
                                "playCount", c), "m_strPlot", p)) :
      ty \in MediaTypes, c \in 0..MaxRating, p \in {"", "A plot"} }

PlotApps == {[BaseApp EXCEPT !.showUnwatchedPlots = b] : b \in BOOLEAN}

InitPlot == InitOn(PlotItems, PlotApps, {BaseVideoInfo}, {BaseAudioInfo})

\* cached bitrates: below, on and above the ties of the division by 1000
Bitrates ==
  {k * 500 + d : k \in 0..MaxBitrateStep, d \in {-1, 0, 1}} \cup {128000}

BitrateItems == {[BaseItem EXCEPT !.hasTag = h] : h \in BOOLEAN}

InitBitrate ==
  /\ InitOn(BitrateItems, {BaseApp},
            {[BaseVideoInfo EXCEPT !.bitrate = b] : b \in Bitrates},
            {[BaseAudioInfo EXCEPT !.bitrate = b] : b \in Bitrates})
  /\ \/ m_videoInfo.bitrate = m_audioInfo.bitrate
     \/ m_videoInfo.bitrate = 0
     \/ m_audioInfo.bitrate = 0

StereoModes == {"", "mono", "left_right", "top_bottom", "top-bottom"}

BoolItems ==
  { [BaseItem EXCEPT !.isFileItem = f, !.hasTag = h,
                     !.tag = WithField(KnownTag, "m_type", ty)] :
      f, h \in BOOLEAN, ty \in MediaTypes }
  \cup
  { [BaseItem EXCEPT !.stereomode = p, !.hasTag = h,
                     !.tag = WithField(KnownTag, "stereoMode", m)] :
      p \in {"", "mono", "left_right"}, h \in BOOLEAN, m \in StereoModes }

InitBool == InitOn(BoolItems, {BaseApp}, {BaseVideoInfo}, {BaseAudioInfo})

\* ratings: the queried type, and the default type "", hold the rating; the
\* type "other" is not rated
RatingItems ==
  { TagItem(WithField(WithField(KnownTag, "m_iUserRating", u), "ratings",
            [t \in RatingTypes |->
               IF t = "other" THEN NoRating ELSE [rating |-> r, votes |-> v]])) :
      r \in -1..MaxRating, v \in -1..MaxRating, u \in -1..MaxRating }

InitRating == InitOn(RatingItems, {BaseApp}, {BaseVideoInfo}, {BaseAudioInfo})

\* every field unknown in turn in a known tag, and known in an unknown tag
UnknownTags ==
  {EmptyTag, KnownTag}
  \cup { WithField(KnownTag, f, EmptyTag[f]) : f \in DOMAIN EmptyTag }
  \cup { WithField(EmptyTag, f, KnownTag[f]) : f \in DOMAIN EmptyTag }

UnknownItems ==
  { [BaseItem EXCEPT !.tag = t, !.isVideoDb = db] :
      t \in UnknownTags, db \in BOOLEAN }
  \cup { [BaseItem EXCEPT !.label = "", !.path = "", !.tag = EmptyTag,
                          !.isVideoDb = db, !.m_bIsFolder = d] :
           db, d \in BOOLEAN }

InitUnknown == InitOn(UnknownItems, {BaseApp}, {BaseVideoInfo}, {BaseAudioInfo})

\* the items InitCurrentItem is handed
CurrentItems ==
  {NullItem}
  \cup { [BaseItem EXCEPT !.isVideo = v, !.isInternetStream = s, !.thumb = th] :
           v, s \in BOOLEAN, th \in {"", "cached.jpg"} }

CurrentApps ==
  { [BaseApp EXCEPT !.isPlayingAudio = a, !.isPlayingVideo = ~a,
                    !.m_strPlayListFile = f] :
      a \in BOOLEAN, f \in {"", "/lists/streams.m3u"} }

Init == InitOn(CurrentItems, CurrentApps, {BaseVideoInfo}, {BaseAudioInfo})

Spec == Init /\ [][Next]_vars
SpecPercent == InitPercent /\ [][Next]_vars
SpecTitle == InitTitle /\ [][Next]_vars
SpecEpisode == InitEpisode /\ [][Next]_vars
SpecPlot == InitPlot /\ [][Next]_vars
SpecBitrate == InitBitrate /\ [][Next]_vars
SpecBool == InitBool /\ [][Next]_vars
SpecRating == InitRating /\ [][Next]_vars
SpecUnknown == InitUnknown /\ [][Next]_vars

(***************************************************************************)
(* Properties.  result.before is the item the last call was made on.       *)
(***************************************************************************)
Abs(x) == IF x < 0 THEN 0 - x ELSE x

Called(op, codes) == result.op = op /\ result.info \in codes

TagBefore == result.before.tag

\* p is elapsed/total*100 rounded to a nearest integer
IsNearestPercent(p, elapsed, total) ==
  2 * Abs(100 * elapsed - p * total) <= total

\* twice the error, in units of 1/total, that the two roundings to the 24
\* digits of a float (of the elapsed time and of the product) can add to
\* elapsed/total*100: 2 * total * (elapsed/total*100) * 2^-22
FloatSlack(elapsed) == (100 * elapsed) \div Pow2(21)

\* p is elapsed/total*100 rounded to a nearest integer after an error of at
\* most FloatSlack
IsNearestFloatPercent(p, elapsed, total) ==
  2 * Abs(100 * elapsed - p * total) <= total + FloatSlack(elapsed)

\* the longest total, in seconds, up to which a float tells every quotient of
\* whole seconds from the nearest tie
ExactBelow == Pow2(17)

\* C1 as stated: for a resume point with 0 <= elapsed <= total and total > 0
\* the result of GetPercentPlayed, as GetInt returns it and as GetLabel
\* prints it for LISTITEM_PERCENT_PLAYED, is elapsed/total*100 rounded to a
\* nearest integer and lies in 0..100; when total is 0 or elapsed <= 0 the
\* result is exactly 0.
PercentPlayedExact ==
  (/\ \/ Called("GetInt", {"LISTITEM_PERCENT_PLAYED"})
      \/ Called("GetLabel", {"LISTITEM_PERCENT_PLAYED"})
   /\ result.found)
  => LET elapsed == TagBefore.resumePoint.timeInSeconds
         total == TagBefore.resumePoint.totalTimeInSeconds
         Is(p) == IF result.op = "GetInt" THEN result.value = p
                  ELSE result.value = FormatInt(p)
     IN /\ (0 <= elapsed /\ elapsed <= total /\ total > 0)
             => \E p \in 0..100 : Is(p) /\ IsNearestPercent(p, elapsed, total)
        /\ (total = 0 \/ elapsed <= 0) => Is(0)

\* C1 amended: for a resume point with 0 <= elapsed <= total and total > 0
\* the result lies in 0..100 and is the product, as computed with the 24
\* digits of a float, rounded to a nearest integer: it is within
\* 1/2 + 2^-22 * (elapsed/total*100) of elapsed/total*100, and for whole
\* seconds with total < 2^17 it is a nearest integer of elapsed/total*100
\* itself; when total is 0 or elapsed <= 0 the result is exactly 0.
PercentPlayedContract ==
  (/\ \/ Called("GetInt", {"LISTITEM_PERCENT_PLAYED"})
      \/ Called("GetLabel", {"LISTITEM_PERCENT_PLAYED"})
   /\ result.found)
  => LET elapsed == TagBefore.resumePoint.timeInSeconds
         total == TagBefore.resumePoint.totalTimeInSeconds
         Is(p) == IF result.op = "GetInt" THEN result.value = p
                  ELSE result.value = FormatInt(p)
     IN /\ (0 <= elapsed /\ elapsed <= total /\ total > 0)
             => \E p \in 0..100 :
                  /\ Is(p)
                  /\ IsNearestFloatPercent(p, elapsed, total)
                  /\ total < ExactBelow => IsNearestPercent(p, elapsed, total)
        /\ (total = 0 \/ elapsed <= 0) => Is(0)

\* GetInt has returned 74 for a resume point at 96346 of 131083 seconds, where
\* elapsed/total*100 is 73.49996...
PercentPlayedWitness ==
  /\ Called("GetInt", {"LISTITEM_PERCENT_PLAYED"})
  /\ result.found
  /\ TagBefore.resumePoint = [timeInSeconds |-> 96346, totalTimeInSeconds |-> 131083]
  /\ result.value = 74

PlayerTitleCodes == {"PLAYER_TITLE", "VIDEOPLAYER_TITLE"}

\* C2: for PLAYER_TITLE and VIDEOPLAYER_TITLE on an item with a tag the label
\* is always found, and its value is the tag's title when that is not empty,
\* else the item's label when that is not empty, else the title derived from
\* the item's path.
TitleFallbackOrder ==
  (Called("GetLabel", PlayerTitleCodes) /\ result.before.hasTag)
  => LET title == TagBefore.m_strTitle
         label == result.before.label
     IN /\ result.found
        /\ title # "" => result.value = title
        /\ (title = "" /\ label # "") => result.value = label
        /\ (title = "" /\ label = "")
             => result.value = GetTitleFromPath(result.before.path)

\* the title of an item without title and label came from its path
TitleFallbackWitness ==
  /\ Called("GetLabel", PlayerTitleCodes)
  /\ result.before.hasTag
  /\ TagBefore.m_strTitle = ""
  /\ result.before.label = ""
  /\ result.before.path = "/videos/movie.mkv"
  /\ result.found
  /\ result.value = "movie.mkv"

EpisodeCodes == {"VIDEOPLAYER_EPISODE", "LISTITEM_EPISODE"}

\* C3: for VIDEOPLAYER_EPISODE and LISTITEM_EPISODE: an episode <= 0 is not
\* found; an episode > 0 of season 0 gives "S" followed by the episode number;
\* an episode > 0 of any other season, negative ones included, gives the bare
\* episode number.
EpisodeLabelRule ==
  (Called("GetLabel", EpisodeCodes) /\ result.before.hasTag)
  => LET episode == TagBefore.m_iEpisode
         season == TagBefore.m_iSeason
     IN /\ episode <= 0 => ~result.found
        /\ (episode > 0 /\ season = 0)
             => result.found /\ result.value = "S" \o FormatInt(episode)
        /\ (episode > 0 /\ season # 0)
             => result.found /\ result.value = FormatInt(episode)

\* episode 2 of season 0 has been labelled "S2"
EpisodeLabelWitness ==
  /\ Called("GetLabel", EpisodeCodes)
  /\ TagBefore.m_iEpisode = 2
  /\ TagBefore.m_iSeason = 0
  /\ result.found
  /\ result.value = "S2"

\* C4: LISTITEM_PLOT on an item with a tag is always found; its value is the
\* spoiler guard text when the media type is neither tvshow nor set, the play
\* count is 0 and the show-unwatched-plots setting is off, and the tag's plot
\* in every other case.
PlotSpoilerGuard ==
  (Called("GetLabel", {"LISTITEM_PLOT"}) /\ result.before.hasTag)
  => LET hidden == /\ TagBefore.m_type \notin {"tvshow", "set"}
                   /\ TagBefore.playCount = 0
                   /\ ~app.showUnwatchedPlots
     IN /\ result.found
        /\ hidden => result.value = HiddenPlotText
        /\ ~hidden => result.value = TagBefore.m_strPlot

\* the plot of an unwatched movie has been hidden
PlotSpoilerWitness ==
  /\ Called("GetLabel", {"LISTITEM_PLOT"})
  /\ TagBefore.m_type = "movie"
  /\ TagBefore.playCount = 0
  /\ TagBefore.m_strPlot = "A plot"
  /\ ~app.showUnwatchedPlots
  /\ result.found
  /\ result.value = "* Hidden to prevent spoilers *"

BitrateCodes == {"VIDEOPLAYER_AUDIO_BITRATE", "VIDEOPLAYER_VIDEO_BITRATE"}

\* the cached bitrate a bitrate code reads
BitrateRead ==
  IF result.info = "VIDEOPLAYER_AUDIO_BITRATE" THEN m_audioInfo.bitrate
  ELSE m_videoInfo.bitrate

\* C5: for VIDEOPLAYER_AUDIO_BITRATE and VIDEOPLAYER_VIDEO_BITRATE: a cached
\* bitrate > 0 is found and printed as bitrate/1000 rounded to a nearest
\* integer (128000 as "128"); a bitrate <= 0 is not found.
BitrateLabelRule ==
  Called("GetLabel", BitrateCodes)
  => LET b == BitrateRead
     IN /\ b > 0 => /\ result.found
                    /\ \E k \in 0..(b \div 1000 + 1) :
                         /\ result.value = FormatInt(k)
                         /\ 2 * Abs(b - 1000 * k) <= 1000
        /\ b = 128000 => result.value = "128"
        /\ b <= 0 => ~result.found

\* an audio bitrate of 1501 has been printed as "2"
BitrateLabelWitness ==
  /\ Called("GetLabel", {"VIDEOPLAYER_AUDIO_BITRATE"})
  /\ m_audioInfo.bitrate = 1501
  /\ result.found
  /\ result.value = "2"

\* the content name of the item a GetBool call was made on
ContentNameBefore ==
  IF ~result.before.hasTag THEN "files"
  ELSE CASE TagBefore.m_type = "movie" -> "movies"
         [] TagBefore.m_type = "episode" -> "episodes"
         [] TagBefore.m_type = "musicvideo" -> "musicvideos"
         [] OTHER -> "files"

\* the spellings of a content name, letter case ignored, among ContentStrings
SpellingsOf(name) ==
  CASE name = "movies" -> {"movies", "MOVIES", "Movies"}
    [] name = "episodes" -> {"episodes", "EPISODES"}
    [] name = "musicvideos" -> {"musicvideos", "MusicVideos"}
    [] name = "files" -> {"files", "FILES"}

\* C6: VIDEOPLAYER_CONTENT, asked of a file item: the item's content name is
\* movies, episodes or musicvideos by its media type and files for any other
\* type or without a tag; the call returns found with value true exactly when
\* the content string of the query equals that name, letter case ignored, and
\* returns not found otherwise: found always equals value.
ContentMatchRule ==
  (Called("GetBool", {"VIDEOPLAYER_CONTENT"}) /\ result.before.isFileItem)
  => /\ result.found = result.value
     /\ result.found <=> result.data3 \in SpellingsOf(ContentNameBefore)

\* an episode asked for "EPISODES" has matched
ContentMatchWitness ==
  /\ Called("GetBool", {"VIDEOPLAYER_CONTENT"})
  /\ result.before.isFileItem
  /\ result.before.hasTag
  /\ TagBefore.m_type = "episode"
  /\ result.data3 = "EPISODES"
  /\ result.found
  /\ result.value = TRUE

\* the stereo mode of the item a call was made on: the item property, else
\* the normalized stereo mode of the tag's stream details
StereoModeBefore ==
  IF result.before.stereomode # "" THEN result.before.stereomode
  ELSE IF result.before.hasTag THEN NormalizeStereoMode(TagBefore.stereoMode)
  ELSE ""

\* C7: LISTITEM_IS_STEREOSCOPIC, asked of a file item, is always found; the
\* value is true when the item's stereo mode is neither empty nor "mono", and
\* false when it is "mono" or empty, whatever the out-parameter held before.
StereoscopicRule ==
  (Called("GetBool", {"LISTITEM_IS_STEREOSCOPIC"}) /\ result.before.isFileItem)
  => /\ result.found
     /\ StereoModeBefore \notin {"", "mono"} => result.value = TRUE
     /\ StereoModeBefore \in {"", "mono"} => result.value = FALSE

RatingOnlyCodes == {"VIDEOPLAYER_RATING", "LISTITEM_RATING"}
RatingAndVotesCodes == {"VIDEOPLAYER_RATING_AND_VOTES", "LISTITEM_RATING_AND_VOTES"}
VotesCodes == {"VIDEOPLAYER_VOTES", "LISTITEM_VOTES"}
UserRatingCodes == {"VIDEOPLAYER_USER_RATING", "LISTITEM_USER_RATING"}

\* the rating of the queried type in the tag a call was made on
RatingBefore == TagBefore.ratings[result.data3]

\* the number a rating, votes or user rating code prints
UnderlyingValue ==
  IF result.info \in VotesCodes THEN RatingBefore.votes
  ELSE IF result.info \in UserRatingCodes THEN TagBefore.m_iUserRating
  ELSE RatingBefore.rating

\* C8 as stated: the rating, rating-and-votes, votes and user rating labels
\* are not found whenever their underlying value (rating, vote count, user
\* rating) is <= 0, and found only when it is > 0.
RatingRulesAllGuarded ==
  Called("GetLabel", RatingOnlyCodes \cup RatingAndVotesCodes \cup VotesCodes
                       \cup UserRatingCodes)
  => (result.found <=> UnderlyingValue > 0)

\* C8 amended: the rating, rating-and-votes and user rating labels are not
\* found whenever their rating (user rating) is <= 0 and found, with the
\* formatted value, when it is > 0; the votes label is always found and
\* prints the vote count, a count <= 0 included.
RatingRulesGuarded ==
  /\ Called("GetLabel", RatingOnlyCodes)
       => /\ result.found <=> RatingBefore.rating > 0
          /\ result.found => result.value = FormatNumberFloat(RatingBefore.rating)
  /\ Called("GetLabel", RatingAndVotesCodes)
       => /\ result.found <=> RatingBefore.rating > 0
          /\ (result.found /\ RatingBefore.votes = 0)
               => result.value = FormatNumberFloat(RatingBefore.rating)
          /\ (result.found /\ RatingBefore.votes # 0)
               => result.value =
                    FormatRatingAndVotes(FormatNumberFloat(RatingBefore.rating),
                                         FormatNumberInt(RatingBefore.votes))
  /\ Called("GetLabel", UserRatingCodes)
       => /\ result.found <=> TagBefore.m_iUserRating > 0
          /\ result.found => result.value = FormatInt(TagBefore.m_iUserRating)
  /\ Called("GetLabel", VotesCodes)
       => /\ result.found
          /\ result.value = FormatNumberInt(RatingBefore.votes)

\* a vote count of 0 has been found and printed, next to a rating of 0 that
\* was not found
VotesFoundWitness ==
  /\ Called("GetLabel", VotesCodes)
  /\ RatingBefore.votes = 0
  /\ RatingBefore.rating = 0
  /\ result.found
  /\ result.value = "0"

\* the codes whose label is returned only when a test of the number, the date
\* or the string it reads succeeds
GuardedCodes ==
  { "VIDEOPLAYER_DBID", "LISTITEM_DBID", "VIDEOPLAYER_RATING", "LISTITEM_RATING",
    "VIDEOPLAYER_RATING_AND_VOTES", "LISTITEM_RATING_AND_VOTES",
    "VIDEOPLAYER_USER_RATING", "LISTITEM_USER_RATING", "VIDEOPLAYER_YEAR",
    "LISTITEM_YEAR", "VIDEOPLAYER_PREMIERED", "LISTITEM_PREMIERED",
    "VIDEOPLAYER_EPISODE", "LISTITEM_EPISODE", "VIDEOPLAYER_SEASON",
    "LISTITEM_SEASON", "VIDEOPLAYER_TOP250", "LISTITEM_TOP250",
    "VIDEOPLAYER_LASTPLAYED", "LISTITEM_LASTPLAYED", "VIDEOPLAYER_PLAYCOUNT",
    "LISTITEM_PLAYCOUNT", "LISTITEM_DURATION", "LISTITEM_TRACKNUMBER",
    "LISTITEM_SETID", "LISTITEM_DATE_ADDED", "LISTITEM_APPEARANCES",
    "LISTITEM_AUDIO_CHANNELS", "LISTITEM_TITLE" }

PlayerPathCodes == {"PLAYER_PATH", "PLAYER_FILENAME", "PLAYER_FILEPATH"}

\* the codes that copy (or join) one string or list field of the tag
PlainCodes ==
  { "VIDEOPLAYER_ORIGINALTITLE", "LISTITEM_ORIGINALTITLE", "VIDEOPLAYER_GENRE",
    "LISTITEM_GENRE", "VIDEOPLAYER_DIRECTOR", "LISTITEM_DIRECTOR",
    "VIDEOPLAYER_IMDBNUMBER", "LISTITEM_IMDBNUMBER", "VIDEOPLAYER_PLOT",
    "VIDEOPLAYER_TRAILER", "LISTITEM_TRAILER", "VIDEOPLAYER_PLOT_OUTLINE",
    "LISTITEM_PLOT_OUTLINE", "VIDEOPLAYER_TVSHOW", "LISTITEM_TVSHOW",
    "VIDEOPLAYER_STUDIO", "LISTITEM_STUDIO", "VIDEOPLAYER_COUNTRY",
    "LISTITEM_COUNTRY", "VIDEOPLAYER_MPAA", "LISTITEM_MPAA", "VIDEOPLAYER_CAST",
    "LISTITEM_CAST", "VIDEOPLAYER_CAST_AND_ROLE", "LISTITEM_CAST_AND_ROLE",
    "VIDEOPLAYER_ARTIST", "LISTITEM_ARTIST", "VIDEOPLAYER_ALBUM",
    "LISTITEM_ALBUM", "VIDEOPLAYER_WRITER", "LISTITEM_WRITER",
    "VIDEOPLAYER_TAGLINE", "LISTITEM_TAGLINE", "LISTITEM_STATUS",
    "LISTITEM_TAG", "LISTITEM_SET", "LISTITEM_DBTYPE", "LISTITEM_VIDEO_CODEC",
    "LISTITEM_AUDIO_CODEC", "LISTITEM_AUDIO_LANGUAGE",
    "LISTITEM_SUBTITLE_LANGUAGE" }

\* the tag field a guarded, title, path or plain code reads (the rating, year
\* and premiered codes read more than one field and are treated apart)
FieldOf(info) ==
  CASE info \in {"VIDEOPLAYER_DBID", "LISTITEM_DBID"} -> "m_iDbId"
    [] info \in UserRatingCodes -> "m_iUserRating"
    [] info \in EpisodeCodes -> "m_iEpisode"
    [] info \in {"VIDEOPLAYER_SEASON", "LISTITEM_SEASON"} -> "m_iSeason"
    [] info \in {"VIDEOPLAYER_TOP250", "LISTITEM_TOP250"} -> "m_iTop250"
    [] info \in {"VIDEOPLAYER_LASTPLAYED", "LISTITEM_LASTPLAYED"} -> "m_lastPlayed"
    [] info \in {"VIDEOPLAYER_PLAYCOUNT", "LISTITEM_PLAYCOUNT"} -> "playCount"
    [] info = "LISTITEM_DURATION" -> "duration"
    [] info = "LISTITEM_TRACKNUMBER" -> "m_iTrack"
    [] info = "LISTITEM_SETID" -> "setId"
    [] info = "LISTITEM_DATE_ADDED" -> "m_dateAdded"
    [] info = "LISTITEM_APPEARANCES" -> "m_relevance"
    [] info = "LISTITEM_AUDIO_CHANNELS" -> "audioChannels"
    [] info \in {"LISTITEM_TITLE"} \cup PlayerTitleCodes -> "m_strTitle"
    [] info \in PlayerPathCodes -> "m_strFileNameAndPath"
    [] info \in {"VIDEOPLAYER_ORIGINALTITLE", "LISTITEM_ORIGINALTITLE"} ->
         "m_strOriginalTitle"
    [] info \in {"VIDEOPLAYER_GENRE", "LISTITEM_GENRE"} -> "m_genre"
    [] info \in {"VIDEOPLAYER_DIRECTOR", "LISTITEM_DIRECTOR"} -> "m_director"
    [] info \in {"VIDEOPLAYER_IMDBNUMBER", "LISTITEM_IMDBNUMBER"} -> "uniqueID"
    [] info = "VIDEOPLAYER_PLOT" -> "m_strPlot"
    [] info \in {"VIDEOPLAYER_TRAILER", "LISTITEM_TRAILER"} -> "m_strTrailer"
    [] info \in {"VIDEOPLAYER_PLOT_OUTLINE", "LISTITEM_PLOT_OUTLINE"} ->
         "m_strPlotOutline"
    [] info \in {"VIDEOPLAYER_TVSHOW", "LISTITEM_TVSHOW"} -> "m_strShowTitle"
    [] info \in {"VIDEOPLAYER_STUDIO", "LISTITEM_STUDIO"} -> "m_studio"
    [] info \in {"VIDEOPLAYER_COUNTRY", "LISTITEM_COUNTRY"} -> "m_country"
    [] info \in {"VIDEOPLAYER_MPAA", "LISTITEM_MPAA"} -> "m_strMPAARating"
    [] info \in {"VIDEOPLAYER_CAST", "LISTITEM_CAST"} -> "cast"
    [] info \in {"VIDEOPLAYER_CAST_AND_ROLE", "LISTITEM_CAST_AND_ROLE"} ->
         "castAndRole"
    [] info \in {"VIDEOPLAYER_ARTIST", "LISTITEM_ARTIST"} -> "m_artist"
    [] info \in {"VIDEOPLAYER_ALBUM", "LISTITEM_ALBUM"} -> "m_strAlbum"
    [] info \in {"VIDEOPLAYER_WRITER", "LISTITEM_WRITER"} -> "m_writingCredits"
    [] info \in {"VIDEOPLAYER_TAGLINE", "LISTITEM_TAGLINE"} -> "m_strTagLine"
    [] info = "LISTITEM_STATUS" -> "m_strStatus"
    [] info = "LISTITEM_TAG" -> "m_tags"
    [] info = "LISTITEM_SET" -> "setTitle"
    [] info = "LISTITEM_DBTYPE" -> "m_type"
    [] info = "LISTITEM_VIDEO_CODEC" -> "videoCodec"
    [] info = "LISTITEM_AUDIO_CODEC" -> "audioCodec"
    [] info = "LISTITEM_AUDIO_LANGUAGE" -> "audioLanguage"
    [] info = "LISTITEM_SUBTITLE_LANGUAGE" -> "subtitleLanguage"

SentinelCodes == GuardedCodes \cup PlayerTitleCodes \cup PlayerPathCodes \cup PlainCodes

\* the field(s) the last call's code reads hold the unknown value: the empty
\* string or list, the sentinel of the number, an invalid date, no rating
UnknownRead ==
  IF result.info \in RatingOnlyCodes \cup RatingAndVotesCodes
  THEN RatingBefore = NoRating
  ELSE IF result.info \in {"VIDEOPLAYER_PREMIERED", "LISTITEM_PREMIERED"}
  THEN TagBefore.m_firstAired = 0 /\ TagBefore.m_premiered = 0
  ELSE IF result.info \in {"VIDEOPLAYER_YEAR", "LISTITEM_YEAR"}
  THEN TagBefore.m_year = 0 /\ TagBefore.m_firstAired = 0 /\ TagBefore.m_premiered = 0
  ELSE TagBefore[FieldOf(result.info)] = EmptyTag[FieldOf(result.info)]

\* C9 as stated: for every metadata code, when the field it reads is unknown,
\* GetLabel returns either not found or found with a non-empty fallback value,
\* never found with the empty or sentinel value itself.
UnknownNeverReturned ==
  (Called("GetLabel", SentinelCodes) /\ result.before.hasTag /\ UnknownRead)
  => (result.found => result.value \notin {"", "-1"})

\* C9 amended: when the field a metadata code reads is unknown, the guarded
\* codes (GuardedCodes) return not found; the player title codes return found
\* with the item's label, else the title of its path; the player path codes
\* return found with the value derived from the item's path; and the codes
\* that copy a string or list field (PlainCodes) return found with the empty
\* value itself.  Every metadata code that is not guarded is always found.
UnknownGuardedOrEmpty ==
  /\ (Called("GetLabel", SentinelCodes) /\ result.before.hasTag /\ UnknownRead)
     => /\ result.info \in GuardedCodes => ~result.found
        /\ result.info \in PlayerTitleCodes
             => /\ result.found
                /\ result.value = IF result.before.label # ""
                                  THEN result.before.label
                                  ELSE GetTitleFromPath(result.before.path)
        /\ result.info \in PlayerPathCodes
             => /\ result.found
                /\ result.value =
                     GetFileInfoLabelValueFromPath(result.info, result.before.path)
        /\ result.info \in PlainCodes => result.found /\ result.value = ""
  /\ (Called("GetLabel", TagLabelCodes \ GuardedCodes) /\ result.before.hasTag)
     => result.found

\* the genre of a tag without genres has been found, and is empty
UnknownEmptyWitness ==
  /\ Called("GetLabel", {"LISTITEM_GENRE"})
  /\ result.before.hasTag
  /\ TagBefore.m_genre = << >>
  /\ TagBefore.m_strTitle = "Pilot"
  /\ result.found
  /\ result.value = ""

\* InitCurrentItem does not apply to the item it was handed
Rejected(it) ==
  \/ it.isNull
  \/ ~it.isVideo
  \/ it.isInternetStream /\ app.isPlayingAudio

\* C10: InitCurrentItem returns false, calls the thumb loader not at all and
\* leaves the item as it was when the item is null, is no video, or is an
\* internet stream while the player plays audio; otherwise it returns true,
\* calls LoadItem only if the item has no "thumb" art, and replaces the thumb
\* by the one of the playlist file only when the item is an internet stream,
\* the playlist file name is not empty and FillThumb succeeds.
InitCurrentItemContract ==
  result.op = "InitCurrentItem"
  => LET b == result.before
     IN /\ Rejected(b)
             => /\ ~result.found
                /\ result.loadItem = 0 /\ result.fillThumb = 0
                /\ item = b
        /\ ~Rejected(b)
             => /\ result.found
                /\ result.loadItem = 1 <=> ~HasThumb(b)
                /\ result.fillThumb = 1
                     <=> b.isInternetStream /\ app.m_strPlayListFile # ""
                /\ item.thumb \in FilledThumbs \ {""}
                     => result.fillThumb = 1
                /\ item.thumb # b.thumb
                     => \/ result.loadItem = 1
                        \/ item.thumb \in FilledThumbs \ {""}
                /\ [item EXCEPT !.thumb = b.thumb] = b

\* the cached thumb of an internet stream has been replaced by the thumb of
\* the playlist file, without a call of LoadItem
InitCurrentItemWitness ==
  /\ result.op = "InitCurrentItem"
  /\ result.found
  /\ result.before.isInternetStream
  /\ result.before.thumb = "cached.jpg"
  /\ result.loadItem = 0
  /\ result.fillThumb = 1
  /\ item.thumb = "thumb-of-playlist.jpg"

\* C11: GetInt returns found exactly for LISTITEM_PERCENT_PLAYED on a file
\* item that carries a video tag, and the value is then GetPercentPlayed of
\* that tag; for every other code, for an item that is not a file item and
\* for a file item without a tag it returns not found and the out-parameter
\* keeps the value it had on entry.
IntResolveContract ==
  result.op = "GetInt"
  => LET b == result.before
     IN /\ result.found
             <=> /\ b.isFileItem
                 /\ b.hasTag
                 /\ result.info = "LISTITEM_PERCENT_PLAYED"
        /\ result.found => result.value = GetPercentPlayed(b.tag)
        /\ ~result.found => result.value = result.valueIn

\* GetInt has rejected the percent-played code on a file item without a tag
\* and has left the caller's 55 in the out-parameter
IntResolveWitness ==
  /\ result.op = "GetInt"
  /\ result.info = "LISTITEM_PERCENT_PLAYED"
  /\ result.before.isFileItem
  /\ ~result.before.hasTag
  /\ ~result.found
  /\ result.valueIn = 55
  /\ result.value = 55

\* the percentage the last call of GetInt or GetLabel has returned for
\* LISTITEM_PERCENT_PLAYED is p
PercentReturned(p) ==
  /\ \/ Called("GetInt", {"LISTITEM_PERCENT_PLAYED"})
     \/ Called("GetLabel", {"LISTITEM_PERCENT_PLAYED"})
  /\ result.found
  /\ IF result.op = "GetInt" THEN result.value = p
     ELSE result.value = FormatInt(p)

PercentResolved ==
  /\ \/ Called("GetInt", {"LISTITEM_PERCENT_PLAYED"})
     \/ Called("GetLabel", {"LISTITEM_PERCENT_PLAYED"})
  /\ result.found

PartWayBefore ==
  /\ TagBefore.resumePoint.totalTimeInSeconds > 0
  /\ TagBefore.resumePoint.timeInSeconds > 0

\* C12 as stated: for every part-way resume point the percentage is
\* floor(elapsed*100/total + 1/2), so that a tie (1 of 8 seconds, 12.5) is
\* rounded away from zero (13).
PercentRoundsHalfAway ==
  (PercentResolved /\ PartWayBefore)
  => LET elapsed == TagBefore.resumePoint.timeInSeconds
         total == TagBefore.resumePoint.totalTimeInSeconds
     IN PercentReturned((200 * elapsed + total) \div (2 * total))

\* C12 amended: for every part-way resume point the percentage is the
\* product, as computed with the 24 digits of a float, rounded to the nearest
\* integer with a tie rounded to the even neighbour: it is within
\* 1/2 + 2^-22 * (elapsed/total*100) of elapsed/total*100, and when
\* elapsed/total*100 is itself a tie (fractional part exactly .5) and the
\* elapsed time is one a float holds exactly (whole seconds below 2^24) the
\* result is the even neighbour: 1 of 8 seconds gives 12, 3 of 8 seconds
\* gives 38.
PercentRoundsHalfEven ==
  (PercentResolved /\ PartWayBefore)
  => LET elapsed == TagBefore.resumePoint.timeInSeconds
         total == TagBefore.resumePoint.totalTimeInSeconds
     IN \E p \in 0..(100 * MaxTime + 100) :
          /\ PercentReturned(p)
          /\ IsNearestFloatPercent(p, elapsed, total)
          /\ (/\ 2 * Abs(100 * elapsed - p * total) = total
              /\ elapsed < Pow2(FloatDigits))
               => p % 2 = 0

\* GetInt has returned 12 for a resume point at 1 of 8 seconds
PercentTieWitness ==
  /\ Called("GetInt", {"LISTITEM_PERCENT_PLAYED"})
  /\ result.found
  /\ TagBefore.resumePoint = [timeInSeconds |-> 1, totalTimeInSeconds |-> 8]
  /\ result.value = 12

====
